---- MODULE Spec2Model ----
(***************************************************************************)
(* QueueCTL: a persistent job queue (SQLite table `jobs`) served by worker *)
(* processes.  The model follows src/queuectl: storage.py (JobStore),      *)
(* worker.py (Worker), models.py (Job, JobState), cli.py (enqueue, retry). *)
(*                                                                         *)
(* A nullable value (SQL NULL, Python None) is the empty set, a present    *)
(* value v is {v}; a comparison with NULL is then never true, as in SQL.   *)
(* Instants are seconds counted from the start of a UTC day.               *)
(***************************************************************************)
EXTENDS Integers, FiniteSets, Sequences, TLC

VARIABLES
    jobs,         \* the committed rows of table `jobs`
    txn,          \* the connection holding SQLite's write lock, or NULL
    now,          \* the wall clock (datetime.utcnow / datetime('now'))
    pc,           \* each worker process's position in Worker.start
    sel,          \* acquire_job: job_id of the row the SELECT returned
    lock_at,      \* acquire_job: the local `now` taken before the SELECT
    current_job,  \* Worker.current_job, the worker's copy of the job
    shutdown,     \* Worker._shutdown
    retry_job,    \* `dlq retry`, per invocation: the copy read by get_job,
                  \* not yet written
    clear_ids,    \* `dlq clear`: the ids listed as DEAD, not yet deleted
    backoff_base, \* the workers' configuration value "backoff_base"
    worker_ids,   \* the worker id each worker process was started with
    parent,       \* the pool parent (cli.start): how far its shutdown has got
    enqueue_ret,  \* history: what the last JobStore.enqueue call returned
    overlap,      \* history: the workers whose last acquire_job call ran
                  \* while another worker was inside acquire_job
    runs,         \* history: for each job id, the outcomes of its runs in
                  \* order (NULL for exit status 0, else the diagnostic)
    update_ret,   \* history: what the last JobStore.update_job call returned
    stats_ret     \* history: what the last JobStore.get_stats call returned

vars == <<jobs, txn, now, pc, sel, lock_at, current_job, shutdown,
          retry_job, clear_ids, backoff_base, worker_ids, parent,
          enqueue_ret,
          overlap, runs,
          update_ret, stats_ret>>

----------------------------------------------------------------------------
(* Bounds of the model *)

JobIds == {"a", "b"}
Procs == {"p1", "p2"}
\* the invocations of `queuectl dlq retry` that may be under way at once
Callers == {"c1", "c2"}
Commands == {"x", "y"}
\* the configured backoff_base ranges over BACKOFF_BASE .. MaxBase
MaxBase == 3
\* max_retries of a submitted descriptor ranges over 1 .. MaxRetries
MaxRetries == 2
\* attempts of a submitted descriptor ranges over 0 .. MaxAttempts
MaxAttempts == 1
\* the clock visits the first Horizon instants of Instants
Horizon == 3
\* no command is run for a copy whose attempts has reached AttemptsCap (a
\* worker that read a row another worker had already concluded can count
\* past max_retries)
AttemptsCap == 3

----------------------------------------------------------------------------
(* Values *)

NULL == {}
Some(v) == {v}
The(c) == CHOOSE v \in c : TRUE

PENDING == "pending"
PROCESSING == "processing"
COMPLETED == "completed"
FAILED == "failed"
DEAD == "dead"
JobStates == {PENDING, PROCESSING, COMPLETED, FAILED, DEAD}

\* cli.start: the workers of one pool are named worker-1 .. worker-N
PoolIds == [p \in Procs |-> IF p = "p1" THEN "worker-1" ELSE "worker-2"]

\* Worker.worker_id
WorkerId(p) == worker_ids[p]

\* ConfigManager.DEFAULT_CONFIG["backoff_base"]
BACKOFF_BASE == 2

\* the seconds Worker.start sleeps between two cycles
POLL_INTERVAL == 1
\* datetime('now', '-5 minutes'), in seconds
LEASE_TTL == 5 * 60
SecondsPerDay == 24 * 60 * 60

\* The instants the clock may show: the start, an instant more than
\* LEASE_TTL (and so more than a first backoff delay) later, an instant of
\* the next day, and later ones a backoff delay or a day further on.
Instants ==
    <<0, LEASE_TTL + 3, SecondsPerDay + LEASE_TTL + 4,
      SecondsPerDay + LEASE_TTL + 6, 2 * SecondsPerDay + LEASE_TTL + 9>>
Clock == {Instants[i] : i \in 1..Horizon}

\* _execute_job's diagnostic of a command that exits with status 1
ExitCode1 == "Exit code 1"
\* _execute_job's diagnostic of a command stopped by the timeout
TimedOut == "Command timed out after 5 minutes"
Diagnostics == {ExitCode1, TimedOut}
\* str(e) of the exception a failing store call raises
StoreErrorMsg == "database is locked"

RECURSIVE Pow(_, _)
Pow(b, k) == IF k = 0 THEN 1 ELSE b * Pow(b, k - 1)

----------------------------------------------------------------------------
(* models.py: Job *)

\* A submitted descriptor: the fields cli.enqueue passes to Job.from_dict.
\* The state may be absent (NULL).
Descriptors ==
    [id : JobIds, command : Commands,
     state : {NULL} \cup {Some(s) : s \in JobStates},
     attempts : 0..MaxAttempts, max_retries : 1..MaxRetries]

\* Job.from_dict with state forced to PENDING: a variant that ignores the
\* descriptor's state.
JobFromDictPending(d, t) ==
    [id |-> d.id, command |-> d.command, state |-> PENDING,
     attempts |-> d.attempts, max_retries |-> d.max_retries,
     created_at |-> t, updated_at |-> t,
     next_retry_at |-> NULL, error_message |-> NULL]

\* Job.from_dict / Job.__init__: the descriptor's fields are taken as they
\* are, an absent state is PENDING; created_at and updated_at default to
\* the current instant.
JobFromDict(d, t) ==
    [id |-> d.id, command |-> d.command,
     state |-> IF d.state = NULL THEN PENDING ELSE The(d.state),
     attempts |-> d.attempts, max_retries |-> d.max_retries,
     created_at |-> t, updated_at |-> t,
     next_retry_at |-> NULL, error_message |-> NULL]

----------------------------------------------------------------------------
(* storage.py: JobStore *)

\* The row INSERTed by enqueue: the job's fields, with no lease.
InsertedRow(job) ==
    [id |-> job.id, command |-> job.command, state |-> job.state,
     attempts |-> job.attempts, max_retries |-> job.max_retries,
     created_at |-> job.created_at, updated_at |-> job.updated_at,
     next_retry_at |-> job.next_retry_at,
     error_message |-> job.error_message,
     locked_by |-> NULL, locked_at |-> NULL]

HasId(rows, id) == \E r \in rows : r.id = id

\* enqueue over a table whose id is not a key: the INSERT always succeeds.
EnqueueRowsNoKey(rows, job) == rows \cup {InsertedRow(job)}

\* enqueue: id is the PRIMARY KEY, so the INSERT of an existing id raises
\* IntegrityError and nothing is written.
EnqueueRows(rows, job) ==
    IF HasId(rows, job.id) THEN rows ELSE rows \cup {InsertedRow(job)}

EnqueueResult(rows, job) == ~HasId(rows, job.id)

\* _row_to_job: the Job built from a row (the lease columns are not read).
RowToJob(r) ==
    [id |-> r.id, command |-> r.command, state |-> r.state,
     attempts |-> r.attempts, max_retries |-> r.max_retries,
     created_at |-> r.created_at, updated_at |-> r.updated_at,
     next_retry_at |-> r.next_retry_at, error_message |-> r.error_message]

\* The calendar day of an instant (the YYYY-MM-DD prefix of its text).
DateOf(t) == t \div SecondsPerDay

\* locked_at < datetime('now', '-5 minutes') as SQLite evaluates it: a
\* comparison of TEXT.  locked_at was written by datetime.isoformat()
\* ('YYYY-MM-DDTHH:MM:SS.ffffff'), datetime() yields 'YYYY-MM-DD HH:MM:SS':
\* the texts differ at the 11th character, where 'T' > ' ', unless the
\* dates differ first.  So the test holds iff locked_at's date is earlier.
LockedBefore(locked_at, t) ==
    \E l \in locked_at : DateOf(l) < DateOf(t - LEASE_TTL)

\* The WHERE clause without `state = ?` in its first branch
EligibleAnyState(r, t) ==
    \/ (r.locked_by = NULL \/ LockedBefore(r.locked_at, t))
    \/ /\ r.state = FAILED
       /\ \E n \in r.next_retry_at : n <= t
       /\ (r.locked_by = NULL \/ LockedBefore(r.locked_at, t))

\* The WHERE clause without its `state = 'failed'` branch
EligiblePendingOnly(r, t) ==
    /\ r.state = PENDING
    /\ (r.locked_by = NULL \/ LockedBefore(r.locked_at, t))

\* The WHERE clause of acquire_job's SELECT.
Eligible(r, t) ==
    \/ /\ r.state = PENDING
       /\ (r.locked_by = NULL \/ LockedBefore(r.locked_at, t))
    \/ /\ r.state = FAILED
       /\ \E n \in r.next_retry_at : n <= t
       /\ (r.locked_by = NULL \/ LockedBefore(r.locked_at, t))

\* The SELECT with ORDER BY created_at DESC
SelectRowsNewest(rows, t) ==
    {r \in rows : /\ Eligible(r, t)
                  /\ \A q \in rows :
                        Eligible(q, t) => r.created_at >= q.created_at}

\* ORDER BY created_at ASC LIMIT 1: the rows the SELECT may return (SQLite
\* fixes no order among rows of equal created_at).
SelectRows(rows, t) ==
    {r \in rows : /\ Eligible(r, t)
                  /\ \A q \in rows : Eligible(q, t) => r.created_at <= q.created_at}

\* acquire_job's UPDATE ... WHERE id = ?
LockRows(rows, id, worker_id, t) ==
    {IF r.id = id
        THEN [r EXCEPT !.locked_by = Some(worker_id), !.locked_at = Some(t),
                       !.state = PROCESSING]
        ELSE r : r \in rows}

\* update_job as INSERT OR REPLACE: an absent record is created
UpdateRowsUpsert(rows, job, t) ==
    IF HasId(rows, job.id)
    THEN {IF r.id = job.id
             THEN [r EXCEPT !.command = job.command, !.state = job.state,
                            !.attempts = job.attempts,
                            !.max_retries = job.max_retries,
                            !.updated_at = t,
                            !.next_retry_at = job.next_retry_at,
                            !.error_message = job.error_message,
                            !.locked_by = NULL, !.locked_at = NULL]
             ELSE r : r \in rows}
    ELSE rows \cup {InsertedRow([job EXCEPT !.updated_at = t])}

\* update_job's UPDATE ... WHERE id = ?  (created_at is not written)
UpdateRows(rows, job, t) ==
    {IF r.id = job.id
        THEN [r EXCEPT !.command = job.command, !.state = job.state,
                       !.attempts = job.attempts,
                       !.max_retries = job.max_retries,
                       !.updated_at = t,
                       !.next_retry_at = job.next_retry_at,
                       !.error_message = job.error_message,
                       !.locked_by = NULL, !.locked_at = NULL]
        ELSE r : r \in rows}

\* update_job's return value: cursor.rowcount > 0
UpdateResult(rows, job) == HasId(rows, job.id)

\* get_stats with COUNT(DISTINCT command) for COUNT(*)
GetStatsDistinct(rows) ==
    [s \in {r.state : r \in rows} |->
        Cardinality({r.command : r \in {q \in rows : q.state = s}})]

\* get_stats: SELECT state, COUNT(*) ... GROUP BY state, as a mapping from
\* the states that occur in the table to their counts.
GetStats(rows) ==
    [s \in {r.state : r \in rows} |->
        Cardinality({r \in rows : r.state = s})]

\* delete_job's DELETE ... WHERE id = ?
DeleteRows(rows, id) == {r \in rows : r.id # id}

\* clear_locks(worker_id) without `locked_at = NULL` in its SET clause
ReleaseRowsKeepStamp(rows, worker_id) ==
    {IF r.locked_by = Some(worker_id) /\ r.state = PROCESSING
        THEN [r EXCEPT !.locked_by = NULL, !.state = PENDING]
        ELSE r : r \in rows}

\* clear_locks(worker_id)
ReleaseRows(rows, worker_id) ==
    {IF r.locked_by = Some(worker_id) /\ r.state = PROCESSING
        THEN [r EXCEPT !.locked_by = NULL, !.locked_at = NULL,
                       !.state = PENDING]
        ELSE r : r \in rows}

\* clear_locks(None) without `state = 'pending'` in its SET clause
ReapRowsKeepState(rows, t) ==
    {IF LockedBefore(r.locked_at, t) /\ r.state = PROCESSING
        THEN [r EXCEPT !.locked_by = NULL, !.locked_at = NULL]
        ELSE r : r \in rows}

\* clear_locks(None)
ReapRows(rows, t) ==
    {IF LockedBefore(r.locked_at, t) /\ r.state = PROCESSING
        THEN [r EXCEPT !.locked_by = NULL, !.locked_at = NULL,
                       !.state = PENDING]
        ELSE r : r \in rows}

----------------------------------------------------------------------------
(* worker.py: Worker *)

\* _mark_completed, up to its call of store.update_job
MarkCompleted(job, t) ==
    [job EXCEPT !.state = COMPLETED, !.updated_at = t]

\* _handle_failure with `attempts > max_retries` as its test
HandleFailureLate(job, error_message, t) ==
    LET attempts == job.attempts + 1 IN
    IF attempts > job.max_retries
    THEN [job EXCEPT !.attempts = attempts,
                     !.error_message = Some(error_message),
                     !.updated_at = t,
                     !.state = DEAD, !.next_retry_at = NULL]
    ELSE [job EXCEPT !.attempts = attempts,
                     !.error_message = Some(error_message),
                     !.updated_at = t,
                     !.next_retry_at = Some(t + Pow(backoff_base, attempts)),
                     !.state = FAILED]

\* _handle_failure with its test made before the attempt is counted in
HandleFailureEarly(job, error_message, t) ==
    LET attempts == job.attempts + 1 IN
    IF attempts + 1 >= job.max_retries
    THEN [job EXCEPT !.attempts = attempts,
                     !.error_message = Some(error_message),
                     !.updated_at = t,
                     !.state = DEAD, !.next_retry_at = NULL]
    ELSE [job EXCEPT !.attempts = attempts,
                     !.error_message = Some(error_message),
                     !.updated_at = t,
                     !.next_retry_at = Some(t + Pow(backoff_base, attempts)),
                     !.state = FAILED]

\* _handle_failure without `job.next_retry_at = None` on its way to DEAD
HandleFailureKeepRetry(job, error_message, t) ==
    LET attempts == job.attempts + 1 IN
    IF attempts >= job.max_retries
    THEN [job EXCEPT !.attempts = attempts,
                     !.error_message = Some(error_message),
                     !.updated_at = t,
                     !.state = DEAD]
    ELSE [job EXCEPT !.attempts = attempts,
                     !.error_message = Some(error_message),
                     !.updated_at = t,
                     !.next_retry_at = Some(t + Pow(backoff_base, attempts)),
                     !.state = FAILED]

\* _handle_failure with the delay computed from the attempts before the
\* increment
HandleFailureOldCount(job, error_message, t) ==
    LET attempts == job.attempts + 1 IN
    IF attempts >= job.max_retries
    THEN [job EXCEPT !.attempts = attempts,
                     !.error_message = Some(error_message),
                     !.updated_at = t,
                     !.state = DEAD, !.next_retry_at = NULL]
    ELSE [job EXCEPT !.attempts = attempts,
                     !.error_message = Some(error_message),
                     !.updated_at = t,
                     !.next_retry_at =
                         Some(t + Pow(backoff_base, job.attempts)),
                     !.state = FAILED]

\* _handle_failure, up to its call of store.update_job
HandleFailure(job, error_message, t) ==
    LET attempts == job.attempts + 1 IN
    IF attempts >= job.max_retries
    THEN [job EXCEPT !.attempts = attempts,
                     !.error_message = Some(error_message),
                     !.updated_at = t,
                     !.state = DEAD, !.next_retry_at = NULL]
    ELSE [job EXCEPT !.attempts = attempts,
                     !.error_message = Some(error_message),
                     !.updated_at = t,
                     !.next_retry_at = Some(t + Pow(backoff_base, attempts)),
                     !.state = FAILED]

\* cli.retry without `job.attempts = 0`
ResetForRetryKeepAttempts(job) ==
    [job EXCEPT !.state = PENDING,
                !.error_message = NULL, !.next_retry_at = NULL]

\* cli.retry: the reset of a job read from the dead-letter queue
ResetForRetry(job) ==
    [job EXCEPT !.state = PENDING, !.attempts = 0,
                !.error_message = NULL, !.next_retry_at = NULL]

----------------------------------------------------------------------------
(* The state after construction: an empty table, every worker started. *)

Init ==
    /\ jobs = {}
    /\ txn = NULL
    /\ now = Instants[1]
    /\ pc = [p \in Procs |-> "idle"]
    /\ sel = [p \in Procs |-> NULL]
    /\ lock_at = [p \in Procs |-> NULL]
    /\ current_job = [p \in Procs |-> NULL]
    /\ shutdown = [p \in Procs |-> FALSE]
    /\ retry_job = [c \in Callers |-> NULL]
    /\ clear_ids = {}
    /\ backoff_base = BACKOFF_BASE
    /\ worker_ids = PoolIds
    /\ parent = "running"
    /\ enqueue_ret = NULL
    /\ overlap = {}
    /\ runs = [id \in JobIds |-> <<>>]
    /\ update_ret = NULL
    /\ stats_ret = NULL

workerVars == <<pc, sel, lock_at, current_job, shutdown>>

----------------------------------------------------------------------------
(* Admission and administration: each a CLI process of its own *)

\* cli.enqueue -> JobStore.enqueue: one INSERT and its commit.
Enqueue(d) ==
    /\ txn = NULL
    /\ LET job == JobFromDict(d, now) IN
         jobs' = EnqueueRows(jobs, job)
    /\ UNCHANGED <<txn, now, workerVars, retry_job, clear_ids, backoff_base,
                worker_ids, parent>>

\* cli.retry, first half: get_job, then the checks that return early.
RetryRead(c, id) ==
    /\ retry_job[c] = NULL
    /\ \E r \in jobs :
         /\ r.id = id
         /\ r.state = DEAD
         /\ retry_job' =
              [retry_job EXCEPT ![c] = Some(ResetForRetry(RowToJob(r)))]
    /\ UNCHANGED <<jobs, txn, now, workerVars, clear_ids, backoff_base,
                worker_ids, parent>>

\* cli.retry, second half: update_job of the reset copy.
RetryWrite(c) ==
    /\ retry_job[c] # NULL
    /\ txn = NULL
    /\ jobs' = UpdateRows(jobs, The(retry_job[c]), now)
    /\ retry_job' = [retry_job EXCEPT ![c] = NULL]
    /\ UNCHANGED <<txn, now, workerVars, clear_ids, backoff_base,
                worker_ids, parent>>

\* JobStore.clear_locks(None): the sweep of stale leases.
Reap ==
    /\ txn = NULL
    /\ jobs' = ReapRows(jobs, now)
    /\ UNCHANGED <<txn, now, workerVars, retry_job, clear_ids, backoff_base,
                worker_ids, parent>>

\* cli.clear, first half: list_jobs(state=DEAD).
ClearList ==
    /\ clear_ids = {}
    /\ clear_ids' = {r.id : r \in {q \in jobs : q.state = DEAD}}
    /\ clear_ids' # {}
    /\ UNCHANGED <<jobs, txn, now, workerVars, retry_job, backoff_base,
                worker_ids, parent>>

\* cli.clear, the loop: delete_job of one listed id.
ClearDelete(id) ==
    /\ id \in clear_ids
    /\ txn = NULL
    /\ jobs' = DeleteRows(jobs, id)
    /\ clear_ids' = clear_ids \ {id}
    /\ UNCHANGED <<txn, now, workerVars, retry_job, backoff_base,
                worker_ids, parent>>

\* The wall clock advances.
Tick ==
    /\ \E t \in Clock : t > now /\ now' = t
    /\ UNCHANGED <<jobs, txn, workerVars, retry_job, clear_ids, backoff_base,
                worker_ids, parent>>

----------------------------------------------------------------------------
(* A worker process p: Worker.start and what it calls *)

\* acquire_job entered by a loop that does not test the shutdown flag
AcquireSelectDeaf(p) ==
    /\ pc[p] = "idle"
    /\ \E r \in SelectRows(jobs, now) :
         /\ sel' = [sel EXCEPT ![p] = Some(r.id)]
         /\ lock_at' = [lock_at EXCEPT ![p] = Some(now)]
    /\ pc' = [pc EXCEPT ![p] = "selected"]
    /\ UNCHANGED <<jobs, txn, now, current_job, shutdown, retry_job,
                clear_ids, backoff_base,
                worker_ids, parent>>

\* The loop test of Worker.start (line 47), then acquire_job, lines 117-134:
\* take `now`, run the SELECT.  With no row the call returns None and the
\* worker sleeps (the state does not change).
AcquireSelect(p) ==
    /\ pc[p] = "idle"
    /\ ~shutdown[p]
    /\ \E r \in SelectRows(jobs, now) :
         /\ sel' = [sel EXCEPT ![p] = Some(r.id)]
         /\ lock_at' = [lock_at EXCEPT ![p] = Some(now)]
    /\ pc' = [pc EXCEPT ![p] = "selected"]
    /\ UNCHANGED <<jobs, txn, now, current_job, shutdown, retry_job,
                clear_ids, backoff_base,
                worker_ids, parent>>

\* acquire_job, lines 139-143: the UPDATE opens a transaction and takes
\* SQLite's write lock; until the commit no other connection sees it, and
\* every other writer waits.
AcquireUpdate(p) ==
    /\ pc[p] = "selected"
    /\ txn = NULL
    /\ txn' = Some(p)
    /\ pc' = [pc EXCEPT ![p] = "updated"]
    /\ UNCHANGED <<jobs, now, sel, lock_at, current_job, shutdown,
                retry_job, clear_ids, backoff_base,
                worker_ids, parent>>

\* acquire_job, line 145: the commit publishes the UPDATE.
AcquireCommit(p) ==
    /\ pc[p] = "updated"
    /\ txn = Some(p)
    /\ jobs' = LockRows(jobs, The(sel[p]), WorkerId(p), The(lock_at[p]))
    /\ txn' = NULL
    /\ pc' = [pc EXCEPT ![p] = "committed"]
    /\ UNCHANGED <<now, sel, lock_at, current_job, shutdown,
                retry_job, clear_ids, backoff_base,
                worker_ids, parent>>

\* acquire_job, lines 148-151, and _process_next_job, lines 65-69: the row
\* is read again and becomes current_job.  If the row has been deleted
\* _row_to_job raises, _process_next_job catches it with no current_job set
\* and the cycle ends.
AcquireReread(p) ==
    /\ pc[p] = "committed"
    /\ \/ \E r \in jobs :
            /\ r.id = The(sel[p])
            /\ current_job' = [current_job EXCEPT ![p] = Some(RowToJob(r))]
            /\ pc' = [pc EXCEPT ![p] = "processing"]
       \/ /\ ~HasId(jobs, The(sel[p]))
          /\ UNCHANGED current_job
          /\ pc' = [pc EXCEPT ![p] = "idle"]
    /\ sel' = [sel EXCEPT ![p] = NULL]
    /\ lock_at' = [lock_at EXCEPT ![p] = NULL]
    /\ UNCHANGED <<jobs, txn, now, shutdown, retry_job, clear_ids,
                backoff_base,
                worker_ids, parent>>

\* _execute_job returns (the command ran to its end), then _mark_completed
\* or _handle_failure changes the copy, up to the call of update_job.
Execute(p, success, error_message) ==
    /\ pc[p] = "processing"
    /\ The(current_job[p]).attempts < AttemptsCap
    /\ current_job' =
         [current_job EXCEPT ![p] =
            Some(IF success
                    THEN MarkCompleted(The(current_job[p]), now)
                    ELSE HandleFailure(The(current_job[p]), error_message, now))]
    /\ pc' = [pc EXCEPT ![p] = "updating"]
    /\ UNCHANGED <<jobs, txn, now, sel, lock_at, shutdown, retry_job,
                clear_ids, backoff_base,
                worker_ids, parent>>

\* store.update_job(job), then current_job = None (lines 81-82).
UpdateJob(p) ==
    /\ pc[p] = "updating"
    /\ txn = NULL
    /\ jobs' = UpdateRows(jobs, The(current_job[p]), now)
    /\ current_job' = [current_job EXCEPT ![p] = NULL]
    /\ pc' = [pc EXCEPT ![p] = "idle"]
    /\ UNCHANGED <<txn, now, sel, lock_at, shutdown, retry_job, clear_ids,
                backoff_base,
                worker_ids, parent>>

\* A cycle in which acquire_job returns None, then time.sleep(1) (lines
\* 65-66 and 50).  The sleep is recorded only while a failed job waits for
\* its next_retry_at: otherwise the passing of time changes nothing a
\* worker can do.
Poll(p) ==
    /\ pc[p] = "idle"
    /\ ~shutdown[p]
    /\ SelectRows(jobs, now) = {}
    /\ \E r \in jobs : r.state = FAILED /\ \E n \in r.next_retry_at : n > now
    /\ now' = now + POLL_INTERVAL
    /\ UNCHANGED <<jobs, txn, workerVars, retry_job, clear_ids, backoff_base,
                worker_ids, parent>>

\* acquire_job raises at its UPDATE (lines 139-143): _process_next_job
\* catches the exception with no current_job set, and the cycle ends.
AcquireFails(p) ==
    /\ pc[p] = "selected"
    /\ pc' = [pc EXCEPT ![p] = "idle"]
    /\ sel' = [sel EXCEPT ![p] = NULL]
    /\ lock_at' = [lock_at EXCEPT ![p] = NULL]
    /\ UNCHANGED <<jobs, txn, now, current_job, shutdown, retry_job,
                clear_ids, backoff_base,
                worker_ids, parent>>

\* store.update_job raises inside _mark_completed or _handle_failure: the
\* except clause (lines 84-87) finds current_job set and calls
\* _handle_failure(current_job, str(e)), which changes the copy again, up
\* to its own call of update_job.
UpdateFails(p) ==
    /\ pc[p] = "updating"
    /\ current_job' =
         [current_job EXCEPT ![p] =
            Some(HandleFailure(The(current_job[p]), StoreErrorMsg, now))]
    /\ pc' = [pc EXCEPT ![p] = "handling"]
    /\ UNCHANGED <<jobs, txn, now, sel, lock_at, shutdown, retry_job,
                clear_ids, backoff_base,
                worker_ids, parent>>

\* The update_job called from the except clause succeeds, then
\* current_job = None (lines 88-89).
HandlerUpdate(p) ==
    /\ pc[p] = "handling"
    /\ txn = NULL
    /\ jobs' = UpdateRows(jobs, The(current_job[p]), now)
    /\ current_job' = [current_job EXCEPT ![p] = NULL]
    /\ pc' = [pc EXCEPT ![p] = "idle"]
    /\ UNCHANGED <<txn, now, sel, lock_at, shutdown, retry_job, clear_ids,
                backoff_base,
                worker_ids, parent>>

\* The update_job called from the except clause raises too: the exception
\* leaves _process_next_job and the loop of Worker.start, whose `finally`
\* runs _cleanup.
HandlerFails(p) ==
    /\ pc[p] = "handling"
    /\ pc' = [pc EXCEPT ![p] = "aborting"]
    /\ UNCHANGED <<jobs, txn, now, sel, lock_at, current_job, shutdown,
                retry_job, clear_ids, backoff_base,
                worker_ids, parent>>

\* _handle_shutdown: SIGINT or SIGTERM sets the flag.
Signal(p) ==
    /\ pc[p] \notin {"stopped", "crashed"}
    /\ ~shutdown[p]
    /\ shutdown' = [shutdown EXCEPT ![p] = TRUE]
    /\ UNCHANGED <<jobs, txn, now, pc, sel, lock_at, current_job,
                retry_job, clear_ids, backoff_base,
                worker_ids, parent>>

\* The loop ends at the top of a cycle, or an exception has left it;
\* _cleanup releases the worker's leases with clear_locks(worker_id).
Cleanup(p) ==
    /\ \/ pc[p] = "idle" /\ shutdown[p]
       \/ pc[p] = "aborting"
    /\ txn = NULL
    /\ jobs' = ReleaseRows(jobs, WorkerId(p))
    /\ pc' = [pc EXCEPT ![p] = "stopped"]
    /\ UNCHANGED <<txn, now, sel, lock_at, current_job, shutdown,
                retry_job, clear_ids, backoff_base,
                worker_ids, parent>>

\* cli.start's handler `cleanup`, lines 125-128: terminate() sends SIGTERM
\* to every child that is alive; the child's handler sets its flag.
PoolTerminate ==
    /\ parent = "running"
    /\ parent' = "terminated"
    /\ shutdown' = [p \in Procs |->
                       shutdown[p] \/ pc[p] \notin {"stopped", "crashed"}]
    /\ UNCHANGED <<jobs, txn, now, pc, sel, lock_at, current_job,
                retry_job, clear_ids, backoff_base, worker_ids>>

\* `cleanup`, lines 129-131: join(timeout=5) of every child has returned
\* and "All workers stopped" is printed.  A join returns when the child
\* has exited or when 5 s have passed: a child that has not exited by then
\* is one that is running a command (a run may last 300 s).
PoolJoin ==
    /\ parent = "terminated"
    /\ \A p \in Procs : pc[p] \in {"stopped", "processing"}
    /\ parent' = "joined"
    /\ UNCHANGED <<jobs, txn, now, workerVars, retry_job, clear_ids,
                backoff_base, worker_ids>>

\* `cleanup`, line 132: exit(0).  The interpreter's exit handler of
\* multiprocessing joins every child that is not a daemon, with no
\* timeout: the parent is gone only when every child has exited.
PoolExit ==
    /\ parent = "joined"
    /\ \A p \in Procs : pc[p] = "stopped"
    /\ parent' = "exited"
    /\ UNCHANGED <<jobs, txn, now, workerVars, retry_job, clear_ids,
                backoff_base, worker_ids>>

\* The process is killed (SIGKILL, power loss): it does nothing more, and
\* SQLite rolls back a transaction it had open.
Crash(p) ==
    /\ pc[p] \notin {"stopped", "crashed"}
    /\ pc' = [pc EXCEPT ![p] = "crashed"]
    /\ txn' = IF txn = Some(p) THEN NULL ELSE txn
    /\ UNCHANGED <<jobs, now, sel, lock_at, current_job, shutdown,
                retry_job, clear_ids, backoff_base,
                worker_ids, parent>>

----------------------------------------------------------------------------
(* History variables: they record what a call returned and which calls ran
   at the same time; no action of the program reads them. *)

history == <<enqueue_ret, overlap, runs, update_ret, stats_ret>>

InAcquire(p) == pc[p] \in {"selected", "updated", "committed"}

\* Enqueue(d), with the value JobStore.enqueue returns recorded.
EnqueueCall(d) ==
    /\ Enqueue(d)
    /\ enqueue_ret' = Some(EnqueueResult(jobs, JobFromDict(d, now)))
    /\ UNCHANGED <<overlap, runs, update_ret, stats_ret>>

\* AcquireSelect(p), the entry of p's acquire_job call, with the calls it
\* overlaps recorded.
AcquireCall(p) ==
    /\ AcquireSelect(p)
    /\ LET inside == {q \in Procs \ {p} : InAcquire(q)} IN
         overlap' = IF inside = {} THEN overlap \ {p}
                                   ELSE overlap \cup inside \cup {p}
    /\ UNCHANGED <<enqueue_ret, runs, update_ret, stats_ret>>

\* Execute(p, success, error_message), with the outcome of the run recorded.
ExecuteRun(p, success, error_message) ==
    /\ Execute(p, success, error_message)
    /\ LET id == The(current_job[p]).id
           outcome == IF success THEN NULL ELSE Some(error_message) IN
         runs' = [runs EXCEPT ![id] = Append(@, outcome)]
    /\ UNCHANGED <<enqueue_ret, overlap, update_ret, stats_ret>>

\* UpdateJob(p), with the value JobStore.update_job returns recorded.
UpdateCall(p) ==
    /\ UpdateJob(p)
    /\ update_ret' = Some(UpdateResult(jobs, The(current_job[p])))
    /\ UNCHANGED <<enqueue_ret, overlap, runs, stats_ret>>

\* `queuectl status`: one get_stats call on a connection of its own, a
\* single SELECT, which reads the committed table.
StatsCall ==
    /\ stats_ret' = Some(GetStats(jobs))
    /\ UNCHANGED <<jobs, txn, now, workerVars, retry_job, clear_ids,
                backoff_base, worker_ids, parent, enqueue_ret, overlap, runs,
                update_ret>>

\* One step of worker p's cycle: acquire_job statement by statement, the
\* run of the command, the update that records its outcome.
Cycle(p) ==
    \/ AcquireUpdate(p)
    \/ AcquireCommit(p)
    \/ AcquireReread(p)
    \/ \E success \in BOOLEAN : Execute(p, success, ExitCode1)
    \/ UpdateJob(p)

\* The shutdown of worker p: the signal, then release_worker at loop exit.
Stop(p) ==
    \/ Signal(p)
    \/ Cleanup(p)

\* The descriptors of jobs admitted as PENDING with attempts = 0 (what
\* `enqueue` is given when the descriptor names neither field).
Admitted ==
    {d \in Descriptors : d.state \in {NULL, Some(PENDING)} /\ d.attempts = 0}

----------------------------------------------------------------------------
(* Spec: the life of one job under two workers, one of which may be told
   to shut down, the dead-letter requeue (one invocation at a time), the
   sweep of stale leases and the passing of time. *)

Next ==
    \/ /\ \E d \in Admitted : d.id = "a" /\ d.command = "x" /\ Enqueue(d)
       /\ UNCHANGED history
    \/ /\ \E id \in JobIds : RetryRead("c1", id)
       /\ UNCHANGED history
    \/ RetryWrite("c1") /\ UNCHANGED history
    \/ Reap /\ UNCHANGED history
    \/ Tick /\ UNCHANGED history
    \/ \E p \in Procs :
         /\ AcquireSelect(p) \/ Cycle(p)
         /\ UNCHANGED history
    \/ Stop("p1") /\ UNCHANGED history

Spec == Init /\ [][Next]_vars

(* SpecRace: two workers acquire among two jobs; which acquire_job calls
   overlapped is recorded.  No time passes. *)

NextRace ==
    \/ /\ \E d \in Admitted : d.command = "x" /\ Enqueue(d)
       /\ UNCHANGED history
    \/ \E p \in Procs :
         \/ AcquireCall(p)
         \/ (Cycle(p) \/ Stop(p)) /\ UNCHANGED history

SpecRace == Init /\ [][NextRace]_vars

(* SpecLease: workers may be killed at any point and time passes; no sweep
   of stale leases runs. *)

NextLease ==
    \/ /\ \E d \in Admitted : d.id = "a" /\ d.command = "x" /\ Enqueue(d)
       /\ UNCHANGED history
    \/ Tick /\ UNCHANGED history
    \/ \E p \in Procs :
         /\ AcquireSelect(p) \/ Cycle(p) \/ Crash(p)
         /\ UNCHANGED history

SpecLease == Init /\ [][NextLease]_vars

(* SpecAdmission: any descriptor of one id may be submitted, the value
   enqueue returns is recorded; one worker and the requeue change the
   record.  No time passes. *)

NextAdmission ==
    \/ \E d \in Descriptors : d.id = "a" /\ EnqueueCall(d)
    \/ /\ \E id \in JobIds : RetryRead("c1", id)
       /\ UNCHANGED history
    \/ RetryWrite("c1") /\ UNCHANGED history
    \/ /\ AcquireSelect("p1") \/ Cycle("p1")
       /\ UNCHANGED history

SpecAdmission == Init /\ [][NextAdmission]_vars

(* SpecSingle: one worker serves two jobs; the outcome and the diagnostic
   of every run are recorded, and time passes. *)

NextSingle ==
    \/ /\ \E d \in Admitted : d.command = "x" /\ Enqueue(d)
       /\ UNCHANGED history
    \/ Tick /\ UNCHANGED history
    \/ /\ \/ AcquireSelect("p1")
          \/ AcquireUpdate("p1")
          \/ AcquireCommit("p1")
          \/ AcquireReread("p1")
          \/ UpdateJob("p1")
       /\ UNCHANGED history
    \/ \E success \in BOOLEAN : \E e \in Diagnostics :
          ExecuteRun("p1", success, e)

SpecSingle == Init /\ [][NextSingle]_vars

(* SpecDelay: one worker serves one job, for every configured backoff_base;
   time passes. *)

InitDelay ==
    /\ jobs = {}
    /\ txn = NULL
    /\ now = Instants[1]
    /\ pc = [p \in Procs |-> "idle"]
    /\ sel = [p \in Procs |-> NULL]
    /\ lock_at = [p \in Procs |-> NULL]
    /\ current_job = [p \in Procs |-> NULL]
    /\ shutdown = [p \in Procs |-> FALSE]
    /\ retry_job = [c \in Callers |-> NULL]
    /\ clear_ids = {}
    /\ backoff_base \in BACKOFF_BASE..MaxBase
    /\ worker_ids = PoolIds
    /\ parent = "running"
    /\ enqueue_ret = NULL
    /\ overlap = {}
    /\ runs = [id \in JobIds |-> <<>>]
    /\ update_ret = NULL
    /\ stats_ret = NULL

NextDelay ==
    \/ /\ \E d \in Admitted : d.id = "a" /\ d.command = "x" /\ Enqueue(d)
       /\ UNCHANGED history
    \/ Tick /\ UNCHANGED history
    \/ /\ AcquireSelect("p1") \/ Cycle("p1")
       /\ UNCHANGED history

SpecDelay == InitDelay /\ [][NextDelay]_vars

(* SpecUpdate: two workers serve one job while the dead-letter queue is
   cleared; the value update_job returns to a worker is recorded.  No time
   passes. *)

NextUpdate ==
    \/ /\ \E d \in Admitted : d.id = "a" /\ d.command = "x" /\ Enqueue(d)
       /\ UNCHANGED history
    \/ ClearList /\ UNCHANGED history
    \/ /\ \E id \in JobIds : ClearDelete(id)
       /\ UNCHANGED history
    \/ \E p \in Procs :
         \/ /\ \/ AcquireSelect(p)
               \/ AcquireUpdate(p)
               \/ AcquireCommit(p)
               \/ AcquireReread(p)
               \/ \E success \in BOOLEAN : Execute(p, success, ExitCode1)
            /\ UNCHANGED history
         \/ UpdateCall(p)

SpecUpdate == Init /\ [][NextUpdate]_vars

(* SpecFaults: one worker serves two jobs over a store whose calls may
   fail; the worker may be told to shut down.  The runs are recorded.  No
   time passes. *)

NextFaults ==
    \/ /\ \E d \in Admitted : d.command = "x" /\ Enqueue(d)
       /\ UNCHANGED history
    \/ /\ \/ AcquireSelect("p1")
          \/ AcquireUpdate("p1")
          \/ AcquireCommit("p1")
          \/ AcquireReread("p1")
          \/ UpdateJob("p1")
          \/ AcquireFails("p1")
          \/ UpdateFails("p1")
          \/ HandlerUpdate("p1")
          \/ HandlerFails("p1")
          \/ Stop("p1")
       /\ UNCHANGED history
    \/ \E success \in BOOLEAN : ExecuteRun("p1", success, ExitCode1)

SpecFaults == Init /\ [][NextFaults]_vars

(* SpecFifo: one worker serves two jobs and every run succeeds; time
   passes. *)

NextFifo ==
    \/ /\ \E d \in Admitted : d.command = "x" /\ Enqueue(d)
       /\ UNCHANGED history
    \/ Tick /\ UNCHANGED history
    \/ /\ \/ AcquireSelect("p1")
          \/ AcquireUpdate("p1")
          \/ AcquireCommit("p1")
          \/ AcquireReread("p1")
          \/ UpdateJob("p1")
       /\ UNCHANGED history
    \/ ExecuteRun("p1", TRUE, ExitCode1)

SpecFifo == Init /\ [][NextFifo]_vars

(* SpecStats: two workers serve two jobs while `queuectl status` reads the
   statistics; what get_stats returns is recorded.  No time passes. *)

NextStats ==
    \/ /\ \E d \in Admitted : d.command = "x" /\ Enqueue(d)
       /\ UNCHANGED history
    \/ \E p \in Procs :
         /\ AcquireSelect(p) \/ Cycle(p)
         /\ UNCHANGED history
    \/ StatsCall

SpecStats == Init /\ [][NextStats]_vars

(* SpecRuns: two workers serve one job; every run of its command and the
   value returned by every outcome update are recorded.  No time passes. *)

NextRuns ==
    \/ /\ \E d \in Admitted : d.id = "a" /\ d.command = "x" /\ Enqueue(d)
       /\ UNCHANGED history
    \/ \E p \in Procs :
         \/ /\ \/ AcquireSelect(p)
               \/ AcquireUpdate(p)
               \/ AcquireCommit(p)
               \/ AcquireReread(p)
            /\ UNCHANGED history
         \/ \E success \in BOOLEAN : ExecuteRun(p, success, ExitCode1)
         \/ UpdateCall(p)

SpecRuns == Init /\ [][NextRuns]_vars

(* SpecLive: two workers serve one job, submitted with any descriptor, and
   sleep between cycles.  No worker stops, crashes or meets a store
   failure, and every step a worker can take is eventually taken: each
   statement and each run of a command returns. *)

WorkerStep(p) ==
    /\ AcquireSelect(p) \/ Cycle(p) \/ Poll(p)
    /\ UNCHANGED history

NextLive ==
    \/ /\ \E d \in Descriptors : d.id = "a" /\ d.command = "x" /\ Enqueue(d)
       /\ UNCHANGED history
    \/ \E p \in Procs : WorkerStep(p)

SpecLive ==
    /\ Init
    /\ [][NextLive]_vars
    /\ \A p \in Procs : WF_vars(WorkerStep(p))

(* SpecPools: two workers serve one job and may be told to shut down.  They
   are either the two workers of one pool or the first workers of two
   pools started against the same store.  No time passes. *)

InitPools ==
    /\ jobs = {}
    /\ txn = NULL
    /\ now = Instants[1]
    /\ pc = [p \in Procs |-> "idle"]
    /\ sel = [p \in Procs |-> NULL]
    /\ lock_at = [p \in Procs |-> NULL]
    /\ current_job = [p \in Procs |-> NULL]
    /\ shutdown = [p \in Procs |-> FALSE]
    /\ retry_job = [c \in Callers |-> NULL]
    /\ clear_ids = {}
    /\ backoff_base = BACKOFF_BASE
    /\ worker_ids \in {PoolIds, [p \in Procs |-> "worker-1"]}
    /\ parent = "running"
    /\ enqueue_ret = NULL
    /\ overlap = {}
    /\ runs = [id \in JobIds |-> <<>>]
    /\ update_ret = NULL
    /\ stats_ret = NULL

NextPools ==
    \/ /\ \E d \in Admitted : d.id = "a" /\ d.command = "x" /\ Enqueue(d)
       /\ UNCHANGED history
    \/ \E p \in Procs :
         /\ AcquireSelect(p) \/ Cycle(p) \/ Stop(p)
         /\ UNCHANGED history

SpecPools == InitPools /\ [][NextPools]_vars

(* SpecRequeue: one worker serves two jobs while two `dlq retry`
   invocations may be under way at once.  No time passes. *)

NextRequeue ==
    \/ /\ \E d \in Admitted : d.command = "x" /\ Enqueue(d)
       /\ UNCHANGED history
    \/ /\ \E c \in Callers : \E id \in JobIds : RetryRead(c, id)
       /\ UNCHANGED history
    \/ /\ \E c \in Callers : RetryWrite(c)
       /\ UNCHANGED history
    \/ /\ AcquireSelect("p1") \/ Cycle("p1")
       /\ UNCHANGED history

SpecRequeue == Init /\ [][NextRequeue]_vars

(* SpecClear: one worker serves two jobs while a `dlq retry` and a
   `dlq clear` may be under way.  No time passes. *)

NextClear ==
    \/ /\ \E d \in Admitted : d.command = "x" /\ Enqueue(d)
       /\ UNCHANGED history
    \/ /\ \E id \in JobIds : RetryRead("c1", id)
       /\ UNCHANGED history
    \/ RetryWrite("c1") /\ UNCHANGED history
    \/ ClearList /\ UNCHANGED history
    \/ /\ \E id \in JobIds : ClearDelete(id)
       /\ UNCHANGED history
    \/ /\ AcquireSelect("p1") \/ Cycle("p1")
       /\ UNCHANGED history

SpecClear == Init /\ [][NextClear]_vars

(* SpecShutdown: a pool of two workers serves two jobs; the pool parent
   receives SIGINT or SIGTERM and shuts the pool down.  No time passes. *)

NextShutdown ==
    \/ /\ \E d \in Admitted : d.command = "x" /\ Enqueue(d)
       /\ UNCHANGED history
    \/ \E p \in Procs :
         /\ AcquireSelect(p) \/ Cycle(p) \/ Cleanup(p)
         /\ UNCHANGED history
    \/ PoolTerminate /\ UNCHANGED history
    \/ PoolJoin /\ UNCHANGED history
    \/ PoolExit /\ UNCHANGED history

SpecShutdown == Init /\ [][NextShutdown]_vars

----------------------------------------------------------------------------
(* Properties *)

Live(p) == pc[p] \notin {"stopped", "crashed"}

\* acquire_job of worker p has returned a job and the worker holds it.
Holds(p) == current_job[p] # NULL /\ pc[p] \in {"processing", "updating"}

\* C1: two acquire calls made by distinct workers whose executions overlap,
\* interleaved statement by statement, never both return the same job id.
C1_AcquireDistinct ==
    \A p \in Procs : \A q \in Procs \ {p} :
        ( /\ {p, q} \subseteq overlap
          /\ pc[p] = "processing"
          /\ pc[q] = "processing" )
        => The(current_job[p]).id # The(current_job[q]).id

NoStaleLease ==
    \A r \in jobs : \A l \in r.locked_at : now - l <= LEASE_TTL

\* C2: with live workers of pairwise distinct worker ids and no lease older
\* than LEASE_TTL, at most one worker holds a given job id as its current
\* job.
C2_MutualExclusion ==
    \A p \in Procs : \A q \in Procs \ {p} :
        ( /\ Live(p) /\ Live(q)
          /\ WorkerId(p) # WorkerId(q)
          /\ NoStaleLease
          /\ Holds(p) /\ Holds(q) )
        => The(current_job[p]).id # The(current_job[q]).id

\* C3: when the worker holding a PROCESSING job has vanished and more than
\* LEASE_TTL has passed since the job's locked_at, the next acquire of a
\* live worker can return that job, with no sweep of stale leases made.
C3_LeaseRecovery ==
    \A r \in jobs : \A p \in Procs :
        ( /\ r.state = PROCESSING
          /\ r.locked_by = Some(WorkerId(p))
          /\ pc[p] = "crashed"
          /\ \E l \in r.locked_at : now - l > LEASE_TTL )
        => r \in SelectRows(jobs, now)

\* C4: every job in state COMPLETED has attempts >= 1 and no error_message.
C4_CompletedShape ==
    \A r \in jobs :
        r.state = COMPLETED => r.attempts >= 1 /\ r.error_message = NULL

\* C5: every job in state PENDING, COMPLETED or DEAD has no next_retry_at.
C5_NoRetryInstant ==
    \A r \in jobs :
        r.state \in {PENDING, COMPLETED, DEAD} => r.next_retry_at = NULL

\* C6: every job in state FAILED has a next_retry_at and
\* 0 < attempts < max_retries.
C6_FailedShape ==
    \A r \in jobs :
        r.state = FAILED =>
            /\ r.next_retry_at # NULL
            /\ 0 < r.attempts
            /\ r.attempts < r.max_retries

\* a job failed, was written back FAILED and waits for its retry
C6_Witness ==
    \E r \in jobs :
        /\ r.state = FAILED
        /\ r.error_message = Some(ExitCode1)
        /\ r.locked_by = NULL

\* C7: every job in state DEAD has attempts >= max_retries.
C7_DeadFloor ==
    \A r \in jobs : r.state = DEAD => r.attempts >= r.max_retries

\* a job exhausted its retries after a first failure and a retry
C7_Witness ==
    \E r \in jobs :
        /\ r.state = DEAD
        /\ r.attempts = MaxRetries
        /\ r.max_retries = MaxRetries

\* C8: every job in state PROCESSING has a locked_by: no update, requeue,
\* release or sweep leaves a job PROCESSING with its lease cleared.
C8_ProcessingLeased ==
    \A r \in jobs : r.state = PROCESSING => r.locked_by # NULL

\* a job is PROCESSING under a lease of an earlier day, which the sweep
\* would clear
C8_Witness ==
    \E r \in jobs :
        /\ r.state = PROCESSING
        /\ LockedBefore(r.locked_at, now)

UniqueIds == \A r \in jobs : \A q \in jobs : r.id = q.id => r = q

\* C9: enqueue of a job whose id already exists returns false and leaves
\* the store unchanged, and at every instant at most one record exists for
\* any id.
C9_DuplicateEnqueue ==
    /\ [][\A d \in Descriptors :
             (EnqueueCall(d) /\ HasId(jobs, d.id))
             => (enqueue_ret' = Some(FALSE) /\ jobs' = jobs)]_vars
    /\ []UniqueIds

\* a submission was refused while the record of that id had been changed
\* by a worker since its admission
C9_Witness ==
    /\ enqueue_ret = Some(FALSE)
    /\ \E r \in jobs : r.error_message # NULL

\* The row that the admission of descriptor d adds in this step.
NewRow(d) == {r \in jobs' \ jobs : r.id = d.id}

\* C10 as stated: every newly admitted job is stored in state PENDING with
\* no lease, whatever its descriptor carries.
C10_AdmittedPending ==
    [][\A d \in Descriptors :
          (EnqueueCall(d) /\ ~HasId(jobs, d.id))
          => \E r \in NewRow(d) :
                r.state = PENDING /\ r.locked_by = NULL /\ r.locked_at = NULL
      ]_vars

\* C10 amended: every newly admitted job is stored with no lease and in the
\* state its descriptor carries, PENDING when the descriptor names none.
C10_AdmittedAsCarried ==
    [][\A d \in Descriptors :
          (EnqueueCall(d) /\ ~HasId(jobs, d.id))
          => \E r \in NewRow(d) :
                /\ d.state = NULL => r.state = PENDING
                /\ \A st \in d.state : r.state = st
                /\ r.locked_by = NULL
                /\ r.locked_at = NULL
      ]_vars

\* a job was admitted DEAD without ever having been attempted
C10_Witness ==
    /\ enqueue_ret = Some(TRUE)
    /\ \E r \in jobs :
         /\ r.state = DEAD
         /\ r.attempts = 0
         /\ r.error_message = NULL
         /\ r.locked_by = NULL

\* A lease is live until LEASE_TTL has passed since its locked_at.
LiveLease(r, t) ==
    r.locked_by # NULL /\ \E l \in r.locked_at : t - l <= LEASE_TTL

\* A job that acquire may return at instant t: PENDING, or FAILED with its
\* next_retry_at reached, and under no live lease.
Claimable(r, t) ==
    /\ \/ r.state = PENDING
       \/ r.state = FAILED /\ \E n \in r.next_retry_at : n <= t
    /\ ~LiveLease(r, t)

\* C11: acquire returns a job (the one its SELECT finds) only if at that
\* time the job is PENDING, or FAILED with next_retry_at <= now, and under
\* no live lease; it returns null (the SELECT finds no row) exactly when no
\* such job exists.  So a job acquired and not yet updated or released is
\* not returned to a second worker whose call comes then.
C11_AcquireEligible ==
    /\ [][\A p \in Procs :
             AcquireSelect(p)
             => \E r \in jobs : r.id \in sel'[p] /\ Claimable(r, now)]_vars
    /\ [](SelectRows(jobs, now) = {}
            <=> ~ \E r \in jobs : Claimable(r, now))

\* one worker holds the only job, a second one is idle and finds no row
C11_Witness ==
    \E p \in Procs : \E q \in Procs \ {p} :
        /\ pc[p] = "processing"
        /\ pc[q] = "idle" /\ ~shutdown[q]
        /\ \E r \in jobs : r.id = The(current_job[p]).id
                           /\ r.locked_by = Some(WorkerId(p))
        /\ SelectRows(jobs, now) = {}

\* The rank of an id in ascending (text) order.
IdRank(id) == IF id = "a" THEN 1 ELSE 2

\* r comes before q in the order `created_at ascending, then id ascending`.
Precedes(r, q) ==
    \/ r.created_at < q.created_at
    \/ r.created_at = q.created_at /\ IdRank(r.id) <= IdRank(q.id)

\* C12: among the jobs eligible at an acquire call, acquire returns the one
\* with the smallest created_at, and among jobs of equal created_at the one
\* with the smallest id.
C12_AcquireOrder ==
    [][\A p \in Procs :
          AcquireSelect(p)
          => \E r \in jobs :
                /\ r.id \in sel'[p]
                /\ \A q \in jobs : Claimable(q, now) => Precedes(r, q)]_vars

\* C13: a successful acquire(worker_id) changes exactly one record: it sets
\* state = PROCESSING, locked_by = worker_id, locked_at = now and
\* updated_at = now, leaves attempts and next_retry_at untouched, and leaves
\* every other record unchanged.
C13_AcquireFrame ==
    [][\A p \in Procs :
          AcquireCommit(p)
          => \E r \in jobs :
                /\ r.id \in sel[p]
                /\ jobs' = (jobs \ {r}) \cup
                     {[r EXCEPT !.state = PROCESSING,
                                !.locked_by = Some(WorkerId(p)),
                                !.locked_at = lock_at[p],
                                !.updated_at = The(lock_at[p])]}]_vars

\* No worker is between the SELECT of job r and the update of its outcome.
Settled(r) ==
    \A p \in Procs :
        /\ r.id \notin sel[p]
        /\ \A j \in current_job[p] : j.id # r.id

\* C14: with a single worker, a job admitted with attempts = 0 whose command
\* fails k times and then succeeds (k < max_retries) ends COMPLETED with
\* attempts = k + 1, the number of its runs.
C14_AttemptsCountRuns ==
    \A r \in jobs :
        (r.state = COMPLETED /\ Settled(r))
        => r.attempts = Len(runs[r.id])

AllFailed(h) == h # <<>> /\ \A i \in 1..Len(h) : h[i] # NULL

\* C15: with a single worker, a job admitted with attempts = 0 whose every
\* run fails is FAILED after each failed run before the last, and ends DEAD
\* with attempts = max_retries, next_retry_at null and error_message the
\* diagnostic of its last run.
C15_ExhaustionToDead ==
    \A r \in jobs :
        LET h == runs[r.id] IN
        (AllFailed(h) /\ Settled(r))
        => IF Len(h) < r.max_retries
           THEN /\ r.state = FAILED
                /\ r.attempts = Len(h)
           ELSE /\ r.state = DEAD
                /\ r.attempts = r.max_retries
                /\ r.next_retry_at = NULL
                /\ r.error_message = h[Len(h)]

\* a job is DEAD after MaxRetries failed runs, the last with another
\* diagnostic than the first
C15_Witness ==
    \E r \in jobs :
        /\ r.state = DEAD
        /\ r.max_retries = MaxRetries
        /\ Len(runs[r.id]) = MaxRetries
        /\ AllFailed(runs[r.id])
        /\ runs[r.id][1] = Some(ExitCode1)
        /\ r.error_message = Some(TimedOut)

\* C16 as stated: for a job stored FAILED with (post-increment) attempts = k,
\* next_retry_at - updated_at is exactly backoff_base^k seconds.
C16_RetryDelayExact ==
    \A r \in jobs :
        r.state = FAILED
        => r.next_retry_at =
               Some(r.updated_at + Pow(backoff_base, r.attempts))

\* C16 amended: the stored next_retry_at is backoff_base^k seconds after the
\* instant the failure handler read, the stored updated_at is the instant
\* read by update, which is not earlier: next_retry_at - updated_at is
\* backoff_base^k less the time between the two reads.
C16_RetryDelayFromFailure ==
    [][\A p \in Procs : \A j \in current_job[p] :
          (UpdateJob(p) /\ j.state = FAILED)
          => \E r \in jobs' :
                /\ r.id = j.id
                /\ r.attempts = j.attempts
                /\ r.next_retry_at =
                       Some(j.updated_at + Pow(backoff_base, r.attempts))
                /\ r.updated_at = now
                /\ j.updated_at <= now]_vars

\* a failure was stored after the clock had advanced, under the largest
\* backoff_base
C16_Witness ==
    /\ backoff_base = MaxBase
    /\ \E r \in jobs :
         /\ r.state = FAILED
         /\ r.attempts = MaxRetries - 1
         /\ \E n \in r.next_retry_at :
              n - r.updated_at < Pow(backoff_base, r.attempts)

\* C17: a job stored FAILED with a next_retry_at is not run again by any
\* worker before that instant: a worker about to run a job holds a copy
\* whose next_retry_at, if any, has been reached.
C17_NoEarlyRetry ==
    \A p \in Procs :
        pc[p] = "processing"
        => \A j \in current_job[p] : \A n \in j.next_retry_at : n <= now

\* C18: the stored attempts of a job never decreases: no operation stores
\* an attempts value smaller than the one stored before it.
C18_AttemptsMonotone ==
    [][\A r \in jobs : \A q \in jobs' :
          q.id = r.id => q.attempts >= r.attempts]_vars

\* C19: the requeue of a DEAD job sets state = PENDING, attempts = 0,
\* error_message and next_retry_at null, and keeps the job's id, command,
\* max_retries and created_at and every other record; only a job read as
\* DEAD is requeued, otherwise the store is left as it was.
C19_RequeueFromDead ==
    /\ [][RetryWrite("c1")
          => \E r \in jobs : \E q \in jobs' :
                /\ r.id = The(retry_job["c1"]).id
                /\ q.id = r.id
                /\ q.state = PENDING /\ q.attempts = 0
                /\ q.error_message = NULL /\ q.next_retry_at = NULL
                /\ q.command = r.command
                /\ q.max_retries = r.max_retries
                /\ q.created_at = r.created_at
                /\ jobs' \ {q} = jobs \ {r}]_vars
    /\ [][\A id \in JobIds :
             RetryRead("c1", id)
             => /\ jobs' = jobs
                /\ \E r \in jobs : r.id = id /\ r.state = DEAD]_vars

\* a job of max_retries = MaxRetries has been requeued some time after its
\* admission (only the requeue writes updated_at of a PENDING job)
C19_Witness ==
    /\ retry_job["c1"] = NULL
    /\ \E r \in jobs :
         /\ r.state = PENDING
         /\ r.attempts = 0
         /\ r.max_retries = MaxRetries
         /\ r.updated_at > r.created_at

\* C20: update(job) replaces the state, attempts, next_retry_at and
\* error_message of the stored record of job.id with the snapshot's, clears
\* locked_by and locked_at whoever holds the lease, leaves every other
\* record as it was and returns true; when no record of that id exists it
\* returns false and creates no record.
C20_UpdateReplaces ==
    [][\A p \in Procs : \A j \in current_job[p] :
          UpdateCall(p)
          => IF HasId(jobs, j.id)
             THEN /\ update_ret' = Some(TRUE)
                  /\ \E r \in jobs : \E q \in jobs' :
                        /\ r.id = j.id /\ q.id = j.id
                        /\ q.state = j.state
                        /\ q.attempts = j.attempts
                        /\ q.next_retry_at = j.next_retry_at
                        /\ q.error_message = j.error_message
                        /\ q.locked_by = NULL /\ q.locked_at = NULL
                        /\ jobs' \ {q} = jobs \ {r}
             ELSE /\ update_ret' = Some(FALSE)
                  /\ jobs' = jobs]_vars

\* a worker's update found its job deleted and created no record
C20_Witness ==
    /\ update_ret = Some(FALSE)
    /\ jobs = {}

\* C21: a worker loop ends only because of a shutdown request: a failure
\* of a store call during a cycle is absorbed and the worker goes on.
C21_LoopTotal ==
    \A p \in Procs : pc[p] \in {"aborting", "stopped"} => shutdown[p]

\* C22: when the update that records an outcome fails, the worker does not
\* change the job: the store, and the state, attempts, error_message and
\* next_retry_at of the copy the worker will write later, stay what they
\* were before the failing call.
C22_StoreErrorNoMutation ==
    [][\A p \in Procs : \A j \in current_job[p] :
          UpdateFails(p)
          => /\ jobs' = jobs
             /\ \E k \in current_job'[p] :
                   /\ k.state = j.state
                   /\ k.attempts = j.attempts
                   /\ k.error_message = j.error_message
                   /\ k.next_retry_at = j.next_retry_at]_vars

\* The record r after release_worker(worker_id), as the claim has it.
Released(r, worker_id) ==
    IF r.state = PROCESSING /\ r.locked_by = Some(worker_id)
    THEN [r EXCEPT !.state = PENDING, !.locked_by = NULL, !.locked_at = NULL]
    ELSE r

C23_GracefulShutdown ==
    [][\A p \in Procs :
          /\ (shutdown[p] /\ pc[p] = "idle") => pc'[p] # "selected"
          /\ (shutdown[p] /\ pc[p] = "processing")
             => pc'[p] \in {"processing", "updating"}
          /\ (shutdown[p] /\ pc[p] = "updating" /\ pc'[p] # "updating")
             => \A j \in current_job[p] : \E r \in jobs' :
                   /\ r.id = j.id
                   /\ r.state = j.state
                   /\ r.attempts = j.attempts
                   /\ r.error_message = j.error_message
          /\ (pc'[p] = "stopped" /\ pc[p] # "stopped")
             => pc[p] = "idle" /\ current_job[p] = NULL
          /\ pc'[p] = "stopped"
             => \A r \in jobs' :
                   ~(r.state = PROCESSING
                     /\ r.locked_by = Some(WorkerId(p)))]_vars

\* a worker asked to stop has recorded an outcome and stopped, leaving a
\* job that is still waiting to the worker that goes on
C23_Witness ==
    \E p \in Procs : \E q \in Procs \ {p} :
        /\ shutdown[p]
        /\ pc[p] = "stopped"
        /\ ~shutdown[q]
        /\ pc[q] = "idle"
        /\ \E r \in jobs : r.state \in {COMPLETED, FAILED}
        /\ \E r \in jobs : r.state = PENDING /\ r.attempts = 0

\* The lease of r is older than LEASE_TTL at instant t.
Expired(r, t) ==
    r.state = PROCESSING /\ \E l \in r.locked_at : l < t - LEASE_TTL

\* C24: the sweep of stale leases is idempotent (a second sweep at the same
\* instant changes nothing more), and one sweep makes PENDING, with
\* locked_by and locked_at cleared, exactly the PROCESSING jobs whose
\* locked_at is more than LEASE_TTL old, leaving every other job as it was.
C24_ReapIdempotent ==
    LET once == ReapRows(jobs, now) IN
    /\ ReapRows(once, now) = once
    /\ once = {IF Expired(r, now)
                  THEN [r EXCEPT !.state = PENDING, !.locked_by = NULL,
                                 !.locked_at = NULL]
                  ELSE r : r \in jobs}

\* C25: with one worker and no failing run, jobs are completed in ascending
\* created_at order: the worker never acquires job B while a job A of
\* earlier created_at is in the store and not COMPLETED, and B is never
\* COMPLETED while such an A is not.
C25_Fifo ==
    [][/\ \A A \in jobs : \A B \in jobs :
            ( /\ AcquireSelect("p1")
              /\ sel'["p1"] = Some(B.id)
              /\ A.created_at < B.created_at )
            => A.state = COMPLETED
       /\ \A A \in jobs' : \A B \in jobs' :
            (A.created_at < B.created_at /\ B.state = COMPLETED)
            => A.state = COMPLETED]_vars

\* two jobs of different created_at are both COMPLETED, the earlier one
\* having been completed after the later one was enqueued
C25_Witness ==
    \E A \in jobs : \E B \in jobs :
        /\ A.created_at < B.created_at
        /\ A.state = COMPLETED
        /\ B.state = COMPLETED
        /\ A.updated_at > B.created_at
        /\ runs[A.id] = <<NULL>>
        /\ runs[B.id] = <<NULL>>

\* stats.get(state, 0), as cli.status reads the mapping
CountOf(stats, s) == IF s \in DOMAIN stats THEN stats[s] ELSE 0

\* C26: get_stats returns, for each state, the number of jobs that are in
\* that state at the instant of the call, and these counts sum to the
\* number of jobs in the table, also while workers move jobs between states.
C26_StatsSnapshot ==
    [][StatsCall
       => \E stats \in stats_ret' :
             /\ \A s \in JobStates :
                   CountOf(stats, s) = Cardinality({r \in jobs : r.state = s})
             /\ CountOf(stats, PENDING) + CountOf(stats, PROCESSING)
                + CountOf(stats, COMPLETED) + CountOf(stats, FAILED)
                + CountOf(stats, DEAD) = Cardinality(jobs)]_vars

\* get_stats has returned the counts of a table in which a worker holds one
\* job while two jobs are in the same state
C26_Witness ==
    /\ \E p \in Procs : pc[p] \in {"processing", "updating"}
    /\ \E stats \in stats_ret :
          /\ \E s \in DOMAIN stats : stats[s] = 2
          /\ stats = GetStats(jobs)

\* C27: a DEAD job gets no further automatic attempt: no step of a worker
\* moves a DEAD job out of DEAD, and no acquire returns a job that is DEAD
\* in the store, whatever the interleaving of the workers' steps.
C27_DeadStaysDead ==
    [][/\ \A r \in jobs :
            r.state = DEAD
            => \E q \in jobs' : q.id = r.id /\ q.state = DEAD
       /\ \A p \in Procs :
            AcquireSelect(p)
            => \A r \in jobs : r.id \in sel'[p] => r.state # DEAD]_vars

\* C30: from its admission until it is COMPLETED or DEAD, a job's command
\* is run at most max_retries times, all workers counted: as long as no
\* outcome has been stored, the runs made number at most max_retries.
C30_RunsBounded ==
    update_ret = NULL
    => \A r \in jobs : Len(runs[r.id]) <= r.max_retries

\* Job id is in the store in one of the given states.
InState(id, states) == \E r \in jobs : r.id = id /\ r.state \in states

C32_CompletedFinal ==
    [][\A r \in jobs :
          r.state = COMPLETED
          => \E q \in jobs' :
                /\ q.id = r.id
                /\ q.state = COMPLETED
                /\ q.attempts = r.attempts
                /\ q.error_message = r.error_message]_vars

\* C33: the release a worker makes when it shuts down never returns to
\* PENDING a job that another live worker is executing, also when the
\* workers belong to pools started separately against the same store.
C33_ReleaseOwnOnly ==
    [][\A p \in Procs : \A q \in Procs \ {p} :
          (Cleanup(p) /\ pc[q] = "processing")
          => \A r \in jobs :
                r.id = The(current_job[q]).id => r \in jobs']_vars

\* C34: the requeue writes to a job only if the job is DEAD at the instant
\* of the write; in particular the write of a requeue never finds the job
\* PROCESSING (requeued by an overlapping requeue and acquired since), so
\* it never resets such a job nor clears a live worker's lease.
C34_RequeueOnlyDead ==
    [][\A c \in Callers :
          RetryWrite(c)
          => \A r \in jobs :
                r.id = The(retry_job[c]).id => r.state # PROCESSING]_vars

\* C35: clearing the dead-letter queue deletes only jobs that are DEAD at
\* the instant they are deleted: a job requeued after the clear listed the
\* DEAD jobs and before it deleted them is not removed.
C35_ClearOnlyDead ==
    [][\A id \in JobIds :
          ClearDelete(id)
          => \A r \in jobs : r.id = id => r.state = DEAD]_vars

\* C31: on SIGINT or SIGTERM the pool parent signals every child, waits up
\* to 5 s for each and forces the end of a child that is still alive after
\* the wait: once the parent is through its waits, and from then on, no
\* child worker is running.
C31_PoolShutdown ==
    parent \in {"joined", "exited"} => \A p \in Procs : pc[p] = "stopped"

====
